---- MODULE Spec2Model ----
(***************************************************************************)
(* go-jsonmp: JSON Merge Patch (RFC 7386) over Go's generic JSON values.   *)
(*                                                                         *)
(* A generic JSON value is nil, a scalar, a []interface{} or a             *)
(* map[string]interface{}.  Go maps are reference values: the model keeps  *)
(* them in a heap and a value that is a map is a reference into the heap,  *)
(* so that the in-place inserts and deletes of handleMap and removeNull    *)
(* are visible through every holder of the map.                            *)
(***************************************************************************)
EXTENDS Naturals, Sequences, FiniteSets, TLC

VARIABLES
    heap,   \* the maps allocated so far: a sequence of functions Keys -> cell
    x,      \* the caller's target, a generic value
    sx,     \* the caller's target as a struct (the document it marshals to)
    y,      \* the caller's patch, a generic value
    pb,     \* the caller's patch as JSON bytes (the document they decode to)
    dst,    \* the caller's destination: the generic value of the last result
    log,    \* one record per call made: what it was given and what it left
    patcher,\* the Patcher: what is left to read of its Reader r, what was
            \* written to its Writer w
    stream, \* the documents the Patcher's Reader held when it was made
    plog,   \* one record per call made on the Patcher
    abuf,   \* the array under the caller's byte slice a, cap(a) bytes
    alen,   \* len(a)
    bb,     \* the caller's byte slice b
    out     \* what Patch(a, b) returned, and the bytes it was given

valueVars == <<heap, x, sx, y, pb, dst, log>>
patcherVars == <<patcher, stream, plog>>
bytesVars == <<abuf, alen, bb, out>>
vars == <<heap, x, sx, y, pb, dst, log, patcher, stream, plog, abuf, alen, bb, out>>

\* ------------------------------------------------------------------ bounds

\* total number of Object members in the caller's target and patch together
MaxMembers == 4
\* the same, where several calls are made on the caller's values
MaxCallMembers == 3
\* number of API calls made on the same caller-held values
MaxCalls == 2

\* the member names of every Object
Keys == {"k1", "k2"}

\* ------------------------------------------------------------------ values

\* a cell of a map that has no entry for the key
Absent == [t |-> "absent", v |-> <<>>]
\* JSON null: Go's nil interface
Null == [t |-> "null", v |-> <<>>]
\* a JSON string (any scalar: the engine never looks inside one)
Str(s) == [t |-> "str", v |-> s]
\* a JSON array: a slice the engine never looks inside nor writes to, held
\* here by its elements' deep values
Arr(es) == [t |-> "arr", v |-> es]
\* a map[string]interface{}: a reference to a heap map
Ref(m) == [t |-> "ref", v |-> m]
\* the deep value of an Object: a total function Keys -> deep value or Absent
Obj(f) == [t |-> "obj", v |-> f]

EmptyMap == [k \in Keys |-> Absent]

\* a value of a Go type other than the generic ones (a struct, a pointer to
\* one), held by the document it marshals to
Typed(d) == [t |-> "typed", v |-> d]

IsMap(i) == i.t = "ref"

\* ------------------------------------------------------------------ heap

RECURSIVE Deep(_, _)
\* the JSON document a generic value encodes to: json.Marshal followed by
\* json.Unmarshal into an interface{} (a fresh tree, compared by reflect.DeepEqual)
Deep(h, i) ==
    IF i.t = "ref" THEN Obj([k \in Keys |-> Deep(h, h[i.v][k])])
    ELSE IF i.t = "typed" THEN i.v
    ELSE i

RECURSIVE AllocFields(_, _, _, _)
RECURSIVE Alloc(_, _)
\* json.Unmarshal of a document into an interface{}: every Object becomes a
\* new map.  Returns the grown heap and the generic value.
Alloc(h, d) ==
    IF d.t # "obj" THEN [h |-> h, v |-> d]
    ELSE LET m  == Len(h) + 1
             h1 == Append(h, EmptyMap)
         IN  [h |-> AllocFields(h1, m, d.v, Keys), v |-> Ref(m)]

AllocFields(h, m, f, ks) ==
    IF ks = {} THEN h
    ELSE LET k  == CHOOSE kk \in ks : TRUE
             n  == Alloc(h, f[k])
         IN  AllocFields([n.h EXCEPT ![m][k] = n.v], m, f, ks \ {k})

\* ------------------------------------------------------------------ engine

\* the orders in which a range over a map may produce its keys
Perms == {s \in [1..Cardinality(Keys) -> Keys] : \A i, j \in DOMAIN s : i # j => s[i] # s[j]}

RECURSIVE removeNullLoop(_, _, _, _)
\* removeNull's range, were it to end at the first entry it deletes
removeNullLoopBreak(h, m, ks, ord) ==
    IF ks = <<>> THEN h
    ELSE LET k == Head(ks)
             v == h[m][k]
         IN  IF v = Absent THEN removeNullLoop(h, m, Tail(ks), ord)
             ELSE IF v = Null THEN [h EXCEPT ![m][k] = Absent]
             ELSE IF IsMap(v)
                  THEN removeNullLoop(removeNullLoop(h, v.v, ord[v.v], ord), m, Tail(ks), ord)
             ELSE removeNullLoop(h, m, Tail(ks), ord)

\* removeNull's range, were it not to descend into the maps it meets
removeNullLoopShallow(h, m, ks, ord) ==
    IF ks = <<>> THEN h
    ELSE LET k == Head(ks)
             v == h[m][k]
         IN  IF v = Null
             THEN removeNullLoop([h EXCEPT ![m][k] = Absent], m, Tail(ks), ord)
             ELSE removeNullLoop(h, m, Tail(ks), ord)

\* the body of removeNull's range over m, for the keys still to be produced.
\* A key deleted before the range reaches it is not produced.
removeNullLoop(h, m, ks, ord) ==
    IF ks = <<>> THEN h
    ELSE LET k == Head(ks)
             v == h[m][k]
         IN  IF v = Absent THEN removeNullLoop(h, m, Tail(ks), ord)
             ELSE IF v = Null
                  THEN removeNullLoop([h EXCEPT ![m][k] = Absent], m, Tail(ks), ord)
             ELSE IF IsMap(v)
                  THEN removeNullLoop(removeNullLoop(h, v.v, ord[v.v], ord), m, Tail(ks), ord)
             ELSE removeNullLoop(h, m, Tail(ks), ord)

\* removeNull recursively removes null entries in a map, in place; it returns m
removeNull(h, m, ord) == removeNullLoop(h, m, ord[m], ord)

RECURSIVE patch(_, _, _, _)
RECURSIVE handleMapLoop(_, _, _, _, _)
\* handleMap's range, were it to assign the patch's map over an old entry as it
\* assigns any other value
handleMapLoopAssign(h, m, cm, ks, ord) ==
    IF ks = <<>> THEN h
    ELSE LET k == Head(ks)
             v == h[cm][k]
         IN  IF v = Absent THEN handleMapLoop(h, m, cm, Tail(ks), ord)
             ELSE IF h[m][k] = Absent
                  THEN IF v = Null THEN handleMapLoop(h, m, cm, Tail(ks), ord)
                       ELSE IF IsMap(v)
                            THEN LET h1 == removeNull(h, v.v, ord)
                                 IN  handleMapLoop([h1 EXCEPT ![m][k] = v], m, cm, Tail(ks), ord)
                       ELSE handleMapLoop([h EXCEPT ![m][k] = v], m, cm, Tail(ks), ord)
             ELSE IF v = Null
                  THEN handleMapLoop([h EXCEPT ![m][k] = Absent], m, cm, Tail(ks), ord)
             ELSE handleMapLoop([h EXCEPT ![m][k] = v], m, cm, Tail(ks), ord)

\* handleMap's range, were it to insert a new entry without looking for nil
handleMapLoopInsertNil(h, m, cm, ks, ord) ==
    IF ks = <<>> THEN h
    ELSE LET k == Head(ks)
             v == h[cm][k]
         IN  IF v = Absent THEN handleMapLoop(h, m, cm, Tail(ks), ord)
             ELSE IF h[m][k] = Absent
                  THEN IF IsMap(v)
                       THEN LET h1 == removeNull(h, v.v, ord)
                            IN  handleMapLoop([h1 EXCEPT ![m][k] = v], m, cm, Tail(ks), ord)
                       ELSE handleMapLoop([h EXCEPT ![m][k] = v], m, cm, Tail(ks), ord)
             ELSE IF v = Null
                  THEN handleMapLoop([h EXCEPT ![m][k] = Absent], m, cm, Tail(ks), ord)
             ELSE IF IsMap(v)
                  THEN LET n == patch(h, h[m][k], v, ord)
                       IN  handleMapLoop([n.h EXCEPT ![m][k] = n.v], m, cm, Tail(ks), ord)
             ELSE handleMapLoop([h EXCEPT ![m][k] = v], m, cm, Tail(ks), ord)

\* the body of handleMap's range over the patch map c, writing to the map m
handleMapLoop(h, m, cm, ks, ord) ==
    IF ks = <<>> THEN h
    ELSE LET k == Head(ks)
             v == h[cm][k]
         IN  IF v = Absent THEN handleMapLoop(h, m, cm, Tail(ks), ord)
             ELSE IF h[m][k] = Absent
                  THEN \* New entry
                       IF v = Null THEN handleMapLoop(h, m, cm, Tail(ks), ord)
                       ELSE IF IsMap(v)
                            THEN LET h1 == removeNull(h, v.v, ord)
                                 IN  handleMapLoop([h1 EXCEPT ![m][k] = v], m, cm, Tail(ks), ord)
                       ELSE handleMapLoop([h EXCEPT ![m][k] = v], m, cm, Tail(ks), ord)
             ELSE \* Old entry, null value = remove
                  IF v = Null
                  THEN handleMapLoop([h EXCEPT ![m][k] = Absent], m, cm, Tail(ks), ord)
             ELSE IF IsMap(v)
                  THEN LET n == patch(h, h[m][k], v, ord)
                       IN  handleMapLoop([n.h EXCEPT ![m][k] = n.v], m, cm, Tail(ks), ord)
             ELSE handleMapLoop([h EXCEPT ![m][k] = v], m, cm, Tail(ks), ord)

\* handleMap, were it to return the patch's map
handleMapReturnsPatch(h, m, pv, ord) ==
    IF ~IsMap(pv) THEN [h |-> h, v |-> pv]
    ELSE [h |-> handleMapLoop(h, m, pv.v, ord[pv.v], ord), v |-> pv]

\* handleMap handles patching of map values: m is patched in place with p
handleMap(h, m, pv, ord) ==
    IF ~IsMap(pv) THEN [h |-> h, v |-> pv]
    ELSE [h |-> handleMapLoop(h, m, pv.v, ord[pv.v], ord), v |-> Ref(m)]

\* patch, were it to return the patch's map as it is
patchVerbatim(h, av, bv, ord) ==
    IF IsMap(av) THEN handleMap(h, av.v, bv, ord)
    ELSE [h |-> h, v |-> bv]

\* patches A with B and returns the result (and the heap it leaves)
patch(h, av, bv, ord) ==
    IF IsMap(av) THEN handleMap(h, av.v, bv, ord)
    ELSE IF IsMap(bv) THEN [h |-> removeNull(h, bv.v, ord), v |-> bv]
    ELSE [h |-> h, v |-> bv]

\* ------------------------------------------------------------------ inputs

RECURSIVE Size(_)
RECURSIVE SizeOver(_, _)
\* the number of Object members in a document
Size(d) == IF d.t = "obj" THEN SizeOver(d.v, Keys) ELSE 0

SizeOver(f, ks) ==
    IF ks = {} THEN 0
    ELSE LET k == CHOOSE kk \in ks : TRUE
         IN  (IF f[k] = Absent THEN 0 ELSE 1 + Size(f[k])) + SizeOver(f, ks \ {k})

RECURSIVE Members(_, _)
RECURSIVE Fields(_, _, _)
\* the functions over the keys ks whose members number at most n
Fields(ks, n, leaves) ==
    IF ks = {} THEN {<<>>}
    ELSE LET k == CHOOSE kk \in ks : TRUE
             ds == {Absent} \cup (IF n >= 1 THEN Members(n - 1, leaves) ELSE {})
         IN  UNION {{(k :> d) @@ f :
                        f \in Fields(ks \ {k}, n - (IF d = Absent THEN 0 ELSE 1 + Size(d)), leaves)} :
                    d \in ds}

\* the Objects of at most n members whose non-Object members are in leaves
Objects(n, leaves) == {Obj([k \in Keys |-> f[k]]) : f \in Fields(Keys, n, leaves)}

\* the values a member of an Object has
Members(n, leaves) == leaves \cup Objects(n, leaves)

\* The engine tells three kinds of value apart: nil, a map, and anything else.
\* The members of the caller's documents are drawn from one value of each kind
\* (the patch's "anything else" is an Array holding an Object with null
\* members); the documents themselves are also a string or an Array.
TargetLeaves == {Null, Str("x")}
PatchLeaves == {Null, Arr(<<Obj([k \in Keys |-> Null])>>)}

TargetDocs(n) == {Null, Str("x"), Arr(<<Str("x")>>)} \cup Objects(n, TargetLeaves)
PatchDocs(n) == {Null, Str("y"), Arr(<<Obj([k \in Keys |-> Null])>>)} \cup Objects(n, PatchLeaves)

\* the (target, patch) documents of at most n members together
InputPairs(n) ==
    UNION {{<<ta, tp>> : tp \in PatchDocs(n - Size(ta))} : ta \in TargetDocs(n)}

\* ------------------------------------------------------------------ API

\* coerces the original interface into a vanilla interface: nil, a map and a
\* slice are returned as they are, anything else is marshalled and decoded
\* into a new generic value
coerce(h, i) ==
    IF i = Null THEN [h |-> h, v |-> i]
    ELSE IF i.t = "ref" THEN [h |-> h, v |-> i]
    ELSE IF i.t = "arr" THEN [h |-> h, v |-> i]
    ELSE Alloc(h, Deep(h, i))

CanonPerm == CHOOSE s \in Perms : TRUE

RECURSIVE Reach(_, _)
\* the maps reachable from a value
Reach(h, i) ==
    IF i.t = "ref" THEN {i.v} \cup UNION {Reach(h, h[i.v][k]) : k \in Keys} ELSE {}

\* the maps among ms with at least two entries: the ones a range over which
\* has more than one order
Wide(h, ms) == {m \in ms : Cardinality({k \in Keys : h[m][k] # Absent}) >= 2}

\* the choices of iteration order for the ranges of a call that patches av
\* with bv: one order for each map of two entries or more that the call can
\* reach (a range over fewer entries has one order)
Orders(h, av, bv) ==
    LET w == Wide(h, Reach(h, av) \cup Reach(h, bv))
    IN  {[m \in 1..Len(h) |-> IF m \in w THEN f[m] ELSE CanonPerm] : f \in [w -> Perms]}

\* the value the caller passes as target: its generic target, a struct, or
\* the destination a previous call filled
Held(t) == IF t = "x" THEN x ELSE IF t = "sx" THEN Typed(sx) ELSE dst

\* the order that ranges every map as CanonPerm
CanonOrder(h) == [m \in 1..Len(h) |-> CanonPerm]

\* what a call leaves: the heap, the destination and the call's record
Returned(t, src, res, canon) ==
    LET doc == Deep(res.h, res.v)
        d   == Alloc(res.h, doc)
    IN  /\ heap' = d.h
        /\ dst' = d.v
        /\ log' = Append(log, [tgt    |-> t,
                               src    |-> src,
                               pre_t  |-> Deep(heap, Held(t)),
                               pre_p  |-> IF src = "y" THEN Deep(heap, y) ELSE pb,
                               pre_y  |-> Deep(heap, y),
                               post_t |-> Deep(res.h, Held(t)),
                               post_y |-> Deep(res.h, y),
                               res    |-> doc,
                               canon  |-> canon])

\* marshalValue: patch, marshal the result and decode it into dst.  The record
\* keeps, beside the result, the result of the same call had every range
\* produced its keys in the one order CanonPerm.
marshalValue(t, src, h, av, bv) ==
    \E ord \in Orders(h, av, bv) :
        LET cn == patch(h, av, bv, CanonOrder(h))
        IN  Returned(t, src, patch(h, av, bv, ord),
                     [same |-> ord = CanonOrder(h), res |-> Deep(cn.h, cn.v)])

\* read: a new json.Decoder on the Reader decodes one document.  The Decoder
\* fills its own buffer from the Reader, with as many bytes as the Reader's
\* Read gives it, and is dropped with what it did not decode: the bytes of n
\* documents, from the one decoded up to all that are left, are gone from
\* the Reader.  An empty Reader gives io.EOF.
read(rd, n) ==
    IF rd = <<>> THEN [err |-> "EOF", i |-> Null, r |-> rd]
    ELSE [err |-> "none", i |-> Head(rd), r |-> SubSeq(rd, n + 1, Len(rd))]

\* PatchValue(a, b, &dst) with a the caller's t and b the caller's y
PatchValueOf(t) ==
    LET ca == coerce(heap, Held(t))
        cb == coerce(ca.h, y)
    IN  marshalValue(t, "y", cb.h, ca.v, cb.v)

\* PatchValueWithBytes(a, c, &dst) with a the caller's t and c the bytes pb
PatchValueWithBytesOf(t) ==
    LET ca == coerce(heap, Held(t))
        cb == Alloc(ca.h, pb)
    IN  marshalValue(t, "pb", cb.h, ca.v, cb.v)

\* PatchValueWithReader(a, r, &dst) with a the caller's t and r a reader of
\* the bytes pb: a new Decoder decodes the one document
PatchValueWithReaderOf(t) ==
    LET ca == coerce(heap, Held(t))
        cb == Alloc(ca.h, read(<<pb>>, 1).i)
    IN  marshalValue(t, "reader", cb.h, ca.v, cb.v)

\* the first call on the caller's values
PatchValue ==
    /\ log = <<>>
    /\ \E t \in {"x", "sx"} : PatchValueOf(t)
    /\ UNCHANGED <<x, sx, y, pb, patcherVars, bytesVars>>

PatchValueWithBytes ==
    /\ log = <<>>
    /\ PatchValueWithBytesOf("x")
    /\ UNCHANGED <<x, sx, y, pb, patcherVars, bytesVars>>

PatchValueWithReader ==
    /\ log = <<>>
    /\ PatchValueWithReaderOf("x")
    /\ UNCHANGED <<x, sx, y, pb, patcherVars, bytesVars>>

\* a further call on the same values, or on the destination of the last call
PatchValueAgain ==
    /\ log # <<>>
    /\ Len(log) < MaxCalls
    /\ \E t \in {"x", "dst"} : PatchValueOf(t)
    /\ UNCHANGED <<x, sx, y, pb, patcherVars, bytesVars>>

\* the caller decodes its target and its patch into generic values
InitOf(n) ==
    \E pr \in InputPairs(n) :
        LET vx == Alloc(<<>>, pr[1])
            vy == Alloc(vx.h, pr[2])
        IN  /\ heap = vy.h
            /\ x = vx.v
            /\ sx = pr[1]
            /\ y = vy.v
            /\ pb = pr[2]
            /\ dst = Null
            /\ log = <<>>

\* no Patcher was made
NoPatcher ==
    /\ patcher = [r |-> <<>>, w |-> <<>>]
    /\ stream = <<>>
    /\ plog = <<>>

\* Patch was not called: out holds what the last call returned (err, res), the
\* bytes a and b it was given, the number n of calls made and what the first
\* of them returned
NoCall ==
    [err |-> "", res |-> <<>>, a |-> <<>>, b |-> <<>>, n |-> 0,
     first |-> [err |-> "", res |-> <<>>]]

\* no byte slices are held
NoBytes ==
    /\ abuf = <<>>
    /\ alen = 0
    /\ bb = <<>>
    /\ out = NoCall

Init == InitOf(MaxMembers) /\ NoPatcher /\ NoBytes

Next == PatchValue \/ PatchValueWithBytes \/ PatchValueWithReader

\* one call on freshly decoded values
Spec == Init /\ [][Next]_vars

InitCalls == InitOf(MaxCallMembers) /\ NoPatcher /\ NoBytes

NextCalls == PatchValue \/ PatchValueAgain

\* several calls on the same values
SpecCalls == InitCalls /\ [][NextCalls]_vars

\* ------------------------------------------------------------------ Patcher

\* number of documents in the Patcher's Reader
MaxStream == 2
\* number of Object members in each document given to a Patcher
MaxStreamMembers == 1

\* bytes that are not a JSON document
BadJSON == [t |-> "bad", v |-> <<>>]

\* the numbers of documents a read may take from the Reader
ReadAhead(rd) == IF rd = <<>> THEN {0} ELSE 1..Len(rd)

\* write: patch and encode the result to the Writer
write(w, h, res) == Append(w, Deep(res.h, res.v))

\* (p *Patcher) Patch(c): read the patch, decode the target bytes c, write
PatcherPatch ==
    /\ Len(plog) < Len(stream)
    /\ \E c \in {sx, BadJSON} : \E n \in ReadAhead(patcher.r) :
          LET b == read(patcher.r, n)
          IN  IF b.err # "none"
              THEN /\ patcher' = [patcher EXCEPT !.r = b.r]
                   /\ plog' = Append(plog, [tgt |-> c, err |-> b.err, patch |-> Null])
              ELSE IF c = BadJSON
              THEN /\ patcher' = [patcher EXCEPT !.r = b.r]
                   /\ plog' = Append(plog, [tgt |-> c, err |-> "syntax", patch |-> b.i])
              ELSE LET av == Alloc(heap, c)
                       bv == Alloc(av.h, b.i)
                   IN  \E ord \in Orders(bv.h, av.v, bv.v) :
                         /\ patcher' = [r |-> b.r,
                                        w |-> write(patcher.w, bv.h, patch(bv.h, av.v, bv.v, ord))]
                         /\ plog' = Append(plog, [tgt |-> c, err |-> "none", patch |-> b.i])
    /\ UNCHANGED <<valueVars, stream, bytesVars>>

\* (p *Patcher) PatchValue(a) with a the caller's x: coerce, read, write
PatcherPatchValue ==
    /\ Len(plog) < Len(stream)
    /\ \E n \in ReadAhead(patcher.r) :
          LET ca == coerce(heap, x)
              b  == read(patcher.r, n)
          IN  IF b.err # "none"
              THEN /\ patcher' = [patcher EXCEPT !.r = b.r]
                   /\ plog' = Append(plog, [tgt |-> Deep(heap, x), err |-> b.err, patch |-> Null])
                   /\ heap' = ca.h
              ELSE LET bv == Alloc(ca.h, b.i)
                   IN  \E ord \in Orders(bv.h, ca.v, bv.v) :
                         LET res == patch(bv.h, ca.v, bv.v, ord)
                         IN  /\ patcher' = [r |-> b.r, w |-> write(patcher.w, bv.h, res)]
                             /\ plog' = Append(plog, [tgt |-> Deep(heap, x), err |-> "none",
                                                      patch |-> b.i])
                             /\ heap' = res.h
    /\ UNCHANGED <<x, sx, y, pb, dst, log, stream, bytesVars>>

\* the sequences of 1 to n documents of ds
Streams(ds, n) == UNION {[1..l -> ds] : l \in 1..n}

\* NewPatcher(r, w): the Reader holds a stream of patch documents, the Writer
\* nothing; the caller holds a target
InitPatcher ==
    /\ \E ta \in TargetDocs(MaxStreamMembers) :
          LET vx == Alloc(<<>>, ta)
          IN  /\ heap = vx.h
              /\ x = vx.v
              /\ sx = ta
    /\ y = Null /\ pb = Null /\ dst = Null /\ log = <<>>
    /\ stream \in Streams(PatchDocs(MaxStreamMembers), MaxStream)
    /\ patcher = [r |-> stream, w |-> <<>>]
    /\ plog = <<>>
    /\ NoBytes

NextPatcher == PatcherPatch \/ PatcherPatchValue

\* calls on one Patcher
SpecPatcher == InitPatcher /\ [][NextPatcher]_vars

\* ------------------------------------------------------------------ bytes

\* len(a) + len(b) of the byte slices given to Patch
MaxBytes == 4
\* cap(a) - len(a) of the slice a given to Patch
MaxSpare == 2

\* the bytes of the documents: brackets, comma and a digit; a number is a run
\* of digits
Bytes == {"[", "]", ",", "1"}
\* the byte 0 that Patch appends to make room
NUL == "NUL"

\* a JSON number, held by its digits
Num(ds) == [t |-> "num", v |-> ds]

Fail == [ok |-> FALSE, v |-> Null, next |-> 0]

RECURSIVE Digits(_, _)
\* the index after the run of digits of s that starts at i
Digits(s, i) == IF i <= Len(s) /\ s[i] = "1" THEN Digits(s, i + 1) ELSE i

RECURSIVE ParseValue(_, _)
RECURSIVE ParseElems(_, _, _)
\* the JSON value of s that starts at i, and the index after it
ParseValue(s, i) ==
    IF i > Len(s) THEN Fail
    ELSE IF s[i] = "1"
         THEN [ok |-> TRUE, v |-> Num(SubSeq(s, i, Digits(s, i) - 1)), next |-> Digits(s, i)]
    ELSE IF s[i] = "["
         THEN IF i + 1 <= Len(s) /\ s[i + 1] = "]"
              THEN [ok |-> TRUE, v |-> Arr(<<>>), next |-> i + 2]
              ELSE ParseElems(s, i + 1, <<>>)
    ELSE Fail

\* the elements of an array of s from i on, after the elements es
ParseElems(s, i, es) ==
    LET e == ParseValue(s, i)
    IN  IF ~e.ok \/ e.next > Len(s) THEN Fail
        ELSE IF s[e.next] = "," THEN ParseElems(s, e.next + 1, Append(es, e.v))
        ELSE IF s[e.next] = "]"
             THEN [ok |-> TRUE, v |-> Arr(Append(es, e.v)), next |-> e.next + 1]
        ELSE Fail

\* json.Unmarshal: the bytes are one JSON value and nothing else, or an error
Unmarshal(s) ==
    LET e == ParseValue(s, 1)
    IN  IF e.ok /\ e.next = Len(s) + 1 THEN [ok |-> TRUE, v |-> e.v] ELSE [ok |-> FALSE, v |-> Null]

RECURSIVE Marshal(_)
RECURSIVE MarshalElems(_)
\* json.Marshal of a value
Marshal(d) ==
    IF d.t = "num" THEN d.v
    ELSE IF d.t = "arr" THEN <<"[">> \o MarshalElems(d.v) \o <<"]">>
    ELSE <<>>

MarshalElems(es) ==
    IF es = <<>> THEN <<>>
    ELSE IF Len(es) = 1 THEN Marshal(es[1])
    ELSE Marshal(es[1]) \o <<",">> \o MarshalElems(Tail(es))

\* the array under a slice, with bs written from index i on (1-based)
WriteAt(buf, i, bs) ==
    [j \in 1..Len(buf) |-> IF j >= i /\ j < i + Len(bs) THEN bs[j - i + 1] ELSE buf[j]]

\* append(s, bs...) for a slice s = [data, buf, own]: data its bytes, buf the
\* caller's array, own whether s has an array of its own.  While the bytes fit
\* the capacity of the caller's array they are written into it; once they do
\* not, the slice gets a new array and the caller's is left as it is.
append(s, bs) ==
    IF ~s.own /\ Len(s.data) + Len(bs) <= Len(s.buf)
    THEN [data |-> s.data \o bs, buf |-> WriteAt(s.buf, Len(s.data) + 1, bs), own |-> FALSE]
    ELSE [data |-> s.data \o bs, buf |-> s.buf, own |-> TRUE]

\* copy(a[1:], a[0:]) and a[0] = '[': the bytes move up by one
shift(s) ==
    LET data == <<"[">> \o SubSeq(s.data, 1, Len(s.data) - 1)
    IN  [data |-> data,
         buf  |-> IF s.own THEN s.buf ELSE WriteAt(s.buf, 1, data),
         own  |-> s.own]

\* the one JSON value Patch makes of a and b
combine(buf, n, b) ==
    LET a0 == [data |-> SubSeq(buf, 1, n), buf |-> buf, own |-> FALSE]
        a1 == shift(append(a0, <<NUL>>))
        a2 == append(a1, <<",">>)
        a3 == append(a2, b)
    IN  append(a3, <<"]">>)

\* what Patch returns for the combined bytes: the decoder's error, a panic
\* where the decoded array has no element 1, or the marshalled result
patched(s) ==
    LET i == Unmarshal(s)
    IN  IF ~i.ok THEN [err |-> "decode", res |-> <<>>]
        ELSE IF i.v.t # "arr" THEN [err |-> "decode", res |-> <<>>]
        ELSE IF Len(i.v.v) < 2 THEN [err |-> "panic", res |-> <<>>]
        ELSE [err |-> "none",
              res |-> LET n == patch(<<>>, i.v.v[1], i.v.v[2], CanonOrder(<<>>))
                      IN  Marshal(Deep(n.h, n.v))]

\* Patch(a, b), called with the slices the caller holds: the first call, or a
\* further call with the same slice headers.  The caller keeps len(a) and
\* cap(a); what Patch wrote below cap(a) stays in the caller's array.
Patch ==
    /\ out.n < MaxCalls
    /\ LET a == combine(abuf, alen, bb)
           r == patched(a.data)
       IN  /\ abuf' = a.buf
           /\ out' = r @@ [a |-> SubSeq(abuf, 1, alen), b |-> bb, n |-> out.n + 1,
                           first |-> IF out.n = 0 THEN r ELSE out.first]
    /\ UNCHANGED <<valueVars, patcherVars, alen, bb>>

\* the byte strings of length n
BytesOf(n) == [1..n -> Bytes]

\* the caller holds two byte slices; a may have spare capacity
InitBytes ==
    /\ \E n \in 0..MaxBytes, m \in 0..MaxBytes, spare \in 0..MaxSpare :
          /\ n + m <= MaxBytes
          /\ \E a \in BytesOf(n) :
                /\ abuf = a \o [j \in 1..spare |-> NUL]
                /\ alen = n
          /\ bb \in BytesOf(m)
    /\ out = NoCall
    /\ heap = <<>> /\ x = Null /\ sx = Null /\ y = Null /\ pb = Null
    /\ dst = Null /\ log = <<>>
    /\ NoPatcher

NextBytes == Patch

\* calls of Patch on the byte slices the caller holds
SpecBytes == InitBytes /\ [][NextBytes]_vars

\* ------------------------------------------------------------------ RFC 7386

RECURSIVE MergePatch(_, _)
\* RFC 7386, section 2: the result of applying the patch document to the target
MergePatch(Target, Ptch) ==
    IF Ptch.t # "obj" THEN Ptch
    ELSE LET T == IF Target.t = "obj" THEN Target.v ELSE EmptyMap
         IN  Obj([k \in Keys |->
                    IF Ptch.v[k] = Absent THEN T[k]
                    ELSE IF Ptch.v[k] = Null THEN Absent
                    ELSE MergePatch(T[k], Ptch.v[k])])

RECURSIVE Sanitize(_)
\* the value with every null member removed from every Object nested in it by
\* Object values; anything else, an Array and its elements included, unchanged
Sanitize(d) ==
    IF d.t # "obj" THEN d
    ELSE Obj([k \in Keys |-> IF d.v[k] = Null THEN Absent ELSE Sanitize(d.v[k])])

\* the Object whose only member is k, with a null value
OnlyNull(k) == Obj([j \in Keys |-> IF j = k THEN Null ELSE Absent])

IsObj(d) == d.t = "obj"

\* the key is a member of the document
Has(d, k) == IsObj(d) /\ d.v[k] # Absent

\* ------------------------------------------------------------------ claims

\* C1: every call's result is deeply equal to RFC 7386's MergePatch of the
\* target and patch documents it was given.
MergePatchEquivalence ==
    \A i \in DOMAIN log : log[i].res = MergePatch(log[i].pre_t, log[i].pre_p)

\* C1 witness: a call merged an Object nested in the target with the patch's,
\* member by member, and removed a member of it for a null of the patch.
MergePatchEquivalenceWitness ==
    \E i \in DOMAIN log : \E k, j \in Keys :
        /\ Has(log[i].pre_t, k) /\ Has(log[i].pre_p, k)
        /\ Has(log[i].pre_t.v[k], j)
        /\ IsObj(log[i].pre_p.v[k])
        /\ log[i].pre_p.v[k].v[j] = Null
        /\ IsObj(log[i].res) /\ IsObj(log[i].res.v[k]) /\ ~Has(log[i].res.v[k], j)

\* C2: a call leaves the caller's generic target deeply equal to what it was
\* before the call.
TargetUnchanged ==
    \A i \in DOMAIN log : log[i].tgt = "x" => log[i].post_t = log[i].pre_t

\* C3: a call of PatchValue leaves the caller's generic patch deeply equal to
\* what it was before the call.
PatchUnchanged ==
    \A i \in DOMAIN log : log[i].src = "y" => log[i].post_y = log[i].pre_y

\* C6 as claimed: for every target, Object or not, that has no member k, the
\* result of merging {k: null} is deeply equal to the target.
NullForAbsentKeyAnyTarget ==
    \A i \in DOMAIN log : \A k \in Keys :
        (log[i].pre_p = OnlyNull(k) /\ ~Has(log[i].pre_t, k))
            => log[i].res = log[i].pre_t

\* C6 amended: for every Object target that has no member k, the result of
\* merging {k: null} is deeply equal to the target and has no member k; for a
\* target that is not an Object the result is the empty Object.
NullForAbsentKey ==
    \A i \in DOMAIN log : \A k \in Keys :
        (log[i].pre_p = OnlyNull(k) /\ ~Has(log[i].pre_t, k))
            => IF IsObj(log[i].pre_t)
               THEN log[i].res = log[i].pre_t /\ ~Has(log[i].res, k)
               ELSE log[i].res = Obj(EmptyMap)

\* C6 witness: {k: null} was merged into an Object that has a member, not k.
NullForAbsentKeyWitness ==
    \E i \in DOMAIN log : \E k, j \in Keys :
        /\ log[i].pre_p = OnlyNull(k)
        /\ IsObj(log[i].pre_t) /\ ~Has(log[i].pre_t, k) /\ Has(log[i].pre_t, j)
        /\ log[i].tgt = "x"

\* C8: where the target Object has a member k that is not an Object and the
\* patch's member k is an Object, the result's member k is that Object with
\* the null members removed from every Object nested in it.
ObjectOverLeafSanitized ==
    \A i \in DOMAIN log : \A k \in Keys :
        (/\ Has(log[i].pre_t, k) /\ ~IsObj(log[i].pre_t.v[k])
         /\ Has(log[i].pre_p, k) /\ IsObj(log[i].pre_p.v[k]))
            => /\ IsObj(log[i].res)
               /\ log[i].res.v[k] = Sanitize(log[i].pre_p.v[k])

\* C8 witness: such a call, the patch's Object holding a null member, in an
\* Object nested in it.
ObjectOverLeafSanitizedWitness ==
    \E i \in DOMAIN log : \E k, j, l \in Keys :
        /\ Has(log[i].pre_t, k) /\ ~IsObj(log[i].pre_t.v[k])
        /\ Has(log[i].pre_p, k) /\ IsObj(log[i].pre_p.v[k])
        /\ IsObj(log[i].pre_p.v[k].v[j])
        /\ log[i].pre_p.v[k].v[j].v[l] = Null
        /\ IsObj(log[i].res.v[k].v[j]) /\ ~Has(log[i].res.v[k].v[j], l)

\* C9: whatever order the ranges of a call produce their keys in, the result
\* is the one the call gives when every range produces them in one fixed order.
OrderIndependent ==
    \A i \in DOMAIN log : log[i].res = log[i].canon.res

\* C9 witness: a call ranged in another order over maps of two entries, in
\* handleMap and in removeNull, with entries to delete and to insert.
OrderIndependentWitness ==
    \E i \in DOMAIN log : \E k \in Keys :
        /\ ~log[i].canon.same
        /\ IsObj(log[i].pre_t)
        /\ \A j \in Keys : Has(log[i].pre_p, j)
        /\ log[i].pre_p.v[k] = Null /\ Has(log[i].pre_t, k)
        /\ \E j \in Keys : IsObj(log[i].pre_p.v[j]) /\ ~Has(log[i].pre_t, j)

\* C7: the calls given the caller's target and patch all return deeply equal
\* results, a call made after another on the same values included.
Deterministic ==
    \A i, j \in DOMAIN log :
        (log[i].tgt \in {"x", "sx"} /\ log[j].tgt \in {"x", "sx"})
            => log[i].res = log[j].res

\* C7 witness: PatchValue was called twice on the same generic target and
\* patch, and the first call changed both.
DeterministicWitness ==
    \E i, j \in DOMAIN log :
        /\ i < j
        /\ log[i].tgt = "x" /\ log[j].tgt = "x"
        /\ log[i].post_t # log[i].pre_t
        /\ log[i].post_y # log[i].pre_y

\* the call i+1 applied the patch to the result of call i: to the destination
\* call i filled, or to the generic target that call i merged in place
Reapplied(i) ==
    /\ i + 1 \in DOMAIN log
    /\ \/ log[i + 1].tgt = "dst"
       \/ /\ log[i].tgt = "x" /\ log[i + 1].tgt = "x"
          /\ log[i + 1].pre_t = log[i].res

\* C10: applying the patch to the result of applying it gives that result.
Idempotent ==
    \A i \in DOMAIN log : Reapplied(i) => log[i + 1].res = log[i].res

\* C10 witness: the patch was applied again to the target merged in place,
\* into which the first call inserted a map of the patch that it had removed
\* a null from: the target and the patch share that map.
IdempotentWitness ==
    \E i \in DOMAIN log : \E k \in Keys :
        /\ Reapplied(i) /\ log[i + 1].tgt = "x"
        /\ ~Has(log[i].pre_t, k)
        /\ Has(log[i].pre_y, k) /\ IsObj(log[i].pre_y.v[k])
        /\ log[i].post_y # log[i].pre_y
        /\ Reach(heap, x) \cap Reach(heap, y) # {}

\* C5: the i-th call on a Patcher whose Reader held v1..vn, the targets given
\* so far being JSON documents, reads v_i as its patch, and the Writer has
\* received the merged results of the calls in their order.
PatcherInOrder ==
    \A i \in DOMAIN plog :
        (\A j \in 1..i : plog[j].tgt # BadJSON)
            => /\ plog[i].err = "none"
               /\ plog[i].patch = stream[i]
               /\ Len(patcher.w) >= i
               /\ patcher.w[i] = MergePatch(plog[i].tgt, stream[i])

\* the bytes are by themselves exactly one JSON document
WellFormed(s) == Unmarshal(s).ok

\* C4: where a or b is not by itself one JSON document, Patch returns a decode
\* error and no bytes: it neither returns a result nor panics.
MalformedIsDecodeError ==
    (out.err # "" /\ ~(WellFormed(out.a) /\ WellFormed(out.b)))
        => out.err = "decode"

\* the bytes visible through the caller's slice a: the first len(a) bytes of
\* its array
CallerA == SubSeq(abuf, 1, alen)

\* the last call of Patch left the bytes of the caller's a and b as it found them
InputsKept == CallerA = out.a /\ bb = out.b

\* the last call of Patch returned what the first call returned
SameAsFirst == out.err = out.first.err /\ out.res = out.first.res

\* C11: Patch(a, b) does not modify the caller's byte slices, whatever the
\* length and capacity of a: after every call the bytes visible through a and
\* b are those before it, and a further call with the same slices returns
\* what the first call returned.
InputBytesUnchanged == out.n > 0 => InputsKept /\ SameAsFirst

\* C11, the part the code keeps: where a has no spare capacity, or no bytes,
\* the first append moves a to a new array before anything is written, or
\* what is written lies beyond len(a); where a has both, the bytes visible
\* through a after the call are '[' and all but the last of a's bytes.
SpareCapacityShifted ==
    out.n > 0 =>
        /\ bb = out.b
        /\ CallerA = IF Len(abuf) > alen /\ alen > 0
                     THEN <<"[">> \o SubSeq(out.a, 1, alen - 1)
                     ELSE out.a

\* a call of Patch that returned a result and changed the caller's a, followed
\* by a call with the same slices that returned a decode error
SpareCapacityShiftedWitness ==
    /\ out.n = 2
    /\ out.first.err = "none"
    /\ out.err = "decode"
    /\ out.a # <<>> /\ out.a[1] = "["
    /\ Len(abuf) > alen

====
